---- MODULE Spec2Model ----
(***************************************************************************)
(* A model of VoiceActivityDetector (src/api/voice_activity_detector.py),  *)
(* the asyncio turn detector of the Omani therapist voice agent, and of    *)
(* OmaniTherapistAI._add_natural_pauses (src/api/omani_therapist_ai.py),    *)
(* the text-to-markup function that writes its pause directives, with the *)
(* session memory of get_ai_response and reset_session.                    *)
(*                                                                         *)
(* Time is a discrete clock `now`; one unit stands for the granularity at  *)
(* which the recogniser's events and the timers are observed.  Texts are   *)
(* sequences of one-character strings.  A silence timer is an asyncio task *)
(* running _silence_timeout_handler; since every non-empty final segment   *)
(* starts exactly one such task, the task started by the segment with id i *)
(* is tasks[i].  A task is "sleep" (inside asyncio.sleep), "ready" (the    *)
(* sleep has elapsed and the task's next step is scheduled), "cb"          *)
(* (suspended inside the awaited turn-complete callback) or "done"; its    *)
(* `cancel` flag says Task.cancel() was called and the CancelledError has  *)
(* not been thrown into it yet.                                            *)
(***************************************************************************)
EXTENDS Integers, Sequences, FiniteSets, TLC

\* ------------------------------------------------------------------ bounds
\* The clock stops at MaxTime.
MaxTime == 4
\* At most MaxSegs non-empty final segments (hence silence timers) per run;
\* one more in the runs of SpecLong.
MaxSegs == 2
\* At most MaxTurns completions are counted between two reset() calls.
MaxTurns == 2
\* A call of update_config gives at most MaxKwargs keywords.
MaxKwargs == 2
\* The exhaustively enumerated texts have at most MaxLen characters.
MaxLen == 4
\* The function is applied at most MaxPasses times to its own output.
MaxPasses == 2
\* A session holds at most MaxExchanges user messages.
MaxExchanges == 6

\* The configuration the detector is constructed with, in clock units: a
\* silence timeout that leaves room for a shorter gap between two segments,
\* and a maximum turn duration that a turn of a few segments can exceed.
SilenceTimeout == 2
MaxTurnDuration == 1

\* --------------------------------------------------------------- constants
\* The minimum-content threshold of _should_process_turn.
MinChars == 3

None == -1

\* The values update_config may give a timeout or a duration.
ConfigValues == {1, SilenceTimeout}
\* The fields of VADConfig that the detector reads.
ConfigKeys == {"silence_timeout", "max_turn_duration"}
\* An attribute that the config object has like every object, and that is
\* not a field.
ObjectAttrs == {"__class__"}
\* The keywords update_config is called with: fields, a name the config
\* object does not have, and an attribute that is no field.
KwargKeys == ConfigKeys \cup {"unknown_key"} \cup ObjectAttrs

\* The texts the recogniser delivers: empty, whitespace, below the content
\* threshold and padded (" ok"), and at the threshold ("oky").
Texts == { <<>>, <<" ">>, <<" ", "o", "k">>, <<"o", "k", "y">> }

\* The callable given to set_turn_complete_callback: a plain function or a
\* coroutine function (on_turn_complete of the web service).
CallbackKinds == {"sync", "async"}

VARIABLES
    config,                 \* VADConfig
    speech_segments,        \* list of SpeechSegment
    last_speech_time,
    turn_start_time,
    current_turn_text,
    silence_timer_task,     \* 0 (None) or the id of a task
    is_processing,
    turn_complete_callback, \* "None", "sync" or "async"
    callback_raises,        \* whether the registered callback is one that
                            \* may raise
    total_turns,
    total_speech_duration,
    average_turn_length,    \* <<numerator, denominator>> of the float
    now,                    \* time.time()
    tasks,                  \* the silence-timer tasks, by id
    force_pc,               \* the caller of force_complete_turn: "idle" | "cb"
    delivered,              \* ids of the segments of speech_segments that
                            \* were already passed to the callback
    ev,                     \* the step just taken, when it is a step of a
                            \* completion, a cancellation or a reset
    invocations,            \* calls of the turn-complete callback since
                            \* the detector was constructed or reset
    markup,                 \* a text given to _add_natural_pauses with an
                            \* emotion label, and the outputs so far
    session_memory,         \* list of ConversationMessage
    system_prompt,          \* the prompt in use
    ai_pc,                  \* get_ai_response: "idle", or "calling" while
                            \* the language model is asked
    detected_language,      \* of the latest user input
    messages,               \* what the latest call gave the language model
    ai_response             \* what the latest call returned

vars == << config, speech_segments, last_speech_time, turn_start_time,
           current_turn_text, silence_timer_task, is_processing,
           turn_complete_callback, callback_raises, total_turns,
           total_speech_duration, average_turn_length, now, tasks, force_pc,
           delivered, ev, invocations, markup, session_memory, system_prompt,
           ai_pc, detected_language, messages, ai_response >>

\* The state of the therapist's session.
sessionVars == << session_memory, system_prompt, ai_pc, detected_language,
                 messages, ai_response >>

\* The state of the turn detector.
detectorVars == << config, speech_segments, last_speech_time, turn_start_time,
                  current_turn_text, silence_timer_task, is_processing,
                  turn_complete_callback, callback_raises, total_turns,
                  total_speech_duration, average_turn_length, now, tasks,
                  force_pc, delivered, ev, invocations >>

\* ------------------------------------------------------------- str helpers
IsSpace(c) == c = " "

RECURSIVE LStrip(_)
LStrip(s) == IF s # <<>> /\ IsSpace(Head(s)) THEN LStrip(Tail(s)) ELSE s

RECURSIVE RStrip(_)
RStrip(s) ==
    IF s # <<>> /\ IsSpace(s[Len(s)]) THEN RStrip(SubSeq(s, 1, Len(s) - 1)) ELSE s

\* str.strip()
Strip(s) == RStrip(LStrip(s))

\* ------------------------------------------------------------------ events
\* args: what the turn-complete callback was called with in the step.
NoArgs == [text |-> <<>>, segments |-> <<>>]
Ev(op, by, out) == [op |-> op, by |-> by, out |-> out, args |-> NoArgs]
\* A segment arrived, the clock advanced or a sleep elapsed.
Other == Ev("other", 0, "")

\* The outcomes of a completion attempt in which the callback was called.
InvokedOuts == {"sync_ok", "sync_raise", "await"}
Invoked(e) == e.op \in {"timer", "force"} /\ e.out \in InvokedOuts

SegIds(segs) == { segs[i].id : i \in 1..Len(segs) }

\* -------------------------------------------------------------- task model
\* Task.done()
Done(ts, i) == ts[i].state = "done"

DoneTask == [state |-> "done", delay |-> 0, deadline |-> 0, cancel |-> FALSE]

\* Task.cancel(): a no-op on a finished task, otherwise a CancelledError is
\* thrown into the task at its next step.  For a task whose sleep has not
\* elapsed that step only ends the task (the handler swallows the error), and
\* nothing reads the task in between, so it is taken together with the cancel.
Cancel(ts, i) ==
    IF Done(ts, i) THEN ts
    ELSE IF ts[i].state = "sleep" /\ ts[i].deadline > now
         THEN [ts EXCEPT ![i] = DoneTask]
         ELSE [ts EXCEPT ![i].cancel = TRUE]

\* The task t (0: the caller is no timer task) returns or raises: it is done.
Finish(ts, t) == IF t = 0 THEN ts ELSE [ts EXCEPT ![t] = DoneTask]

\* asyncio.create_task(self._silence_timeout_handler()): the new task sleeps
\* for config.silence_timeout.
NewTask == [state |-> "sleep", delay |-> config.silence_timeout,
            deadline |-> now + config.silence_timeout, cancel |-> FALSE]

\* (mutant) the new timer is started without cancelling the pending one
ResetSilenceTimerTasks_NoCancel == Append(tasks, NewTask)

\* _reset_silence_timer: cancel the existing timer, start a new one.
ResetSilenceTimerTasks ==
    Append(IF silence_timer_task # 0 /\ ~Done(tasks, silence_timer_task)
           THEN Cancel(tasks, silence_timer_task)
           ELSE tasks,
           NewTask)

\* No text is being converted.
NoMarkup == [text |-> <<>>, emotion |-> "", outs |-> <<>>]

\* ------------------------------------------------------------------- Init
\* The detector after __init__ and, as in the web service, an optional
\* set_turn_complete_callback right after it.
InitDetector ==
    /\ config = [silence_timeout |-> SilenceTimeout,
                 max_turn_duration |-> MaxTurnDuration]
    /\ speech_segments = <<>>
    /\ last_speech_time = None
    /\ turn_start_time = None
    /\ current_turn_text = <<>>
    /\ silence_timer_task = 0
    /\ is_processing = FALSE
    /\ turn_complete_callback \in {"None"} \cup CallbackKinds
    /\ callback_raises \in
         IF turn_complete_callback = "None" THEN {FALSE} ELSE BOOLEAN
    /\ total_turns = 0
    /\ total_speech_duration = 0
    /\ average_turn_length = <<0, 1>>
    /\ now = 0
    /\ tasks = <<>>
    /\ force_pc = "idle"
    /\ delivered = {}
    /\ ev = Ev("init", 0, "")
    /\ invocations = 0

\* A message of the session.
ConversationMessage(role, content) == [role |-> role, content |-> content]

\* No answer of the language model.
NoResponse == [none |-> TRUE, text |-> <<>>]

\* The session after OmaniTherapistAI.__init__: the Arabic prompt is the
\* default, and the memory holds the system message.
InitSession ==
    /\ system_prompt = "system_prompt_arabic"
    /\ session_memory =
         << ConversationMessage("system", "system_prompt_arabic") >>
    /\ ai_pc = "idle"
    /\ detected_language = "ar"
    /\ messages = <<>>
    /\ ai_response = NoResponse

\* The detector alone: the markup function is not called and nothing is
\* said to the therapist.
Init ==
    /\ InitDetector
    /\ InitSession
    /\ markup = NoMarkup

\* (mutant) every final result, blank or not, is accumulated and restarts
\* the silence timer
AddSpeechSegment_EveryFinal(text, is_final) ==
    LET id == Len(tasks) + 1
        segment == [id |-> id, text |-> text, start_time |-> now,
                    end_time |-> now, is_final |-> is_final]
    IN
    /\ turn_start_time' =
         IF turn_start_time = None /\ Strip(text) # <<>> THEN now
         ELSE turn_start_time
    /\ IF is_final
       THEN /\ current_turn_text' =
                 IF current_turn_text # <<>>
                 THEN current_turn_text \o <<" ">> \o Strip(text)
                 ELSE Strip(text)
            /\ speech_segments' = Append(speech_segments, segment)
            /\ last_speech_time' = now
            /\ tasks' = ResetSilenceTimerTasks
            /\ silence_timer_task' = id
       ELSE UNCHANGED << current_turn_text, speech_segments, last_speech_time,
                         tasks, silence_timer_task >>
    /\ ev' = Other
    /\ UNCHANGED << sessionVars, markup, invocations, config, is_processing,
                    turn_complete_callback,
                    callback_raises, total_turns, total_speech_duration,
                    average_turn_length, now, force_pc, delivered >>

\* add_speech_segment(text, is_final)
AddSpeechSegment(text, is_final) ==
    LET id == Len(tasks) + 1
        segment == [id |-> id, text |-> text, start_time |-> now,
                    end_time |-> now, is_final |-> is_final]
    IN
    /\ turn_start_time' =
         IF turn_start_time = None /\ Strip(text) # <<>> THEN now
         ELSE turn_start_time
    /\ IF is_final /\ Strip(text) # <<>>
       THEN /\ current_turn_text' =
                 IF current_turn_text # <<>>
                 THEN current_turn_text \o <<" ">> \o Strip(text)
                 ELSE Strip(text)
            /\ speech_segments' = Append(speech_segments, segment)
            /\ last_speech_time' = now
            /\ tasks' = ResetSilenceTimerTasks
            /\ silence_timer_task' = id
       ELSE UNCHANGED << current_turn_text, speech_segments, last_speech_time,
                         tasks, silence_timer_task >>
    /\ ev' = Other
    /\ UNCHANGED << sessionVars, markup, invocations, config, is_processing,
                    turn_complete_callback,
                    callback_raises, total_turns, total_speech_duration,
                    average_turn_length, now, force_pc, delivered >>

\* A task whose next step is due: an elapsed sleep, a scheduled step, or a
\* CancelledError waiting to be thrown.
Due(i) ==
    \/ tasks[i].state = "sleep" /\ tasks[i].deadline <= now
    \/ tasks[i].state = "ready"
    \/ tasks[i].state # "done" /\ tasks[i].cancel

\* The clock advances once the event loop has run everything that is due.
Tick ==
    /\ now < MaxTime
    /\ \A i \in 1..Len(tasks) : ~Due(i)
    /\ now' = now + 1
    /\ ev' = Other
    /\ UNCHANGED << sessionVars, markup, invocations, config, speech_segments,
                    last_speech_time, turn_start_time,
                    current_turn_text, silence_timer_task, is_processing,
                    turn_complete_callback, callback_raises, total_turns,
                    total_speech_duration, average_turn_length, tasks,
                    force_pc, delivered >>

\* ------------------------------------------------------ turn completion
\* (mutant) the minimum-content check is missing
ShouldProcessTurn_NoMinimum == Strip(current_turn_text) # <<>>

\* (mutant) the minimum-content check is off by one
ShouldProcessTurn_OffByOne ==
    /\ Strip(current_turn_text) # <<>>
    /\ Len(Strip(current_turn_text)) >= MinChars - 1

\* _should_process_turn
ShouldProcessTurn ==
    IF Strip(current_turn_text) = <<>> THEN FALSE
    ELSE IF Len(Strip(current_turn_text)) < MinChars THEN FALSE
    ELSE IF turn_start_time # None
            /\ now - turn_start_time > config.max_turn_duration THEN TRUE
    ELSE TRUE

\* (mutant) _reset_turn_state leaves the pending timer running
ResetTasks_NoCancel == tasks

\* The tasks after _reset_turn_state's "cancel any pending silence timer".
ResetTasks ==
    IF silence_timer_task # 0 /\ ~Done(tasks, silence_timer_task)
    THEN Cancel(tasks, silence_timer_task)
    ELSE tasks

\* (mutant) _reset_turn_state keeps the time of the last speech
ResetTurnState_KeepsLastSpeech(t) ==
    /\ speech_segments' = <<>>
    /\ current_turn_text' = <<>>
    /\ turn_start_time' = None
    /\ last_speech_time' = last_speech_time
    /\ delivered' = {}
    /\ tasks' = Finish(ResetTasks, t)
    /\ silence_timer_task' =
         IF silence_timer_task # 0 /\ ~Done(tasks, silence_timer_task)
         THEN 0 ELSE silence_timer_task

\* _reset_turn_state, called in task t (0: not in a timer task), which then
\* returns.
ResetTurnState(t) ==
    /\ speech_segments' = <<>>
    /\ current_turn_text' = <<>>
    /\ turn_start_time' = None
    /\ last_speech_time' = None
    /\ delivered' = {}
    /\ tasks' = Finish(ResetTasks, t)
    /\ silence_timer_task' =
         IF silence_timer_task # 0 /\ ~Done(tasks, silence_timer_task)
         THEN 0 ELSE silence_timer_task

\* The turn state and the timers are left as they are; task t ends.
KeepTurnState(t) ==
    /\ tasks' = Finish(tasks, t)
    /\ UNCHANGED << speech_segments, current_turn_text, turn_start_time,
                    last_speech_time, silence_timer_task >>

\* (mutant) _complete_turn without its guard
Guarded_Never == FALSE

\* The re-entrancy guard at the head of _complete_turn.
Guarded == is_processing

\* (mutant) a turn of no duration is not counted
UpdateStatistics_SkipsInstant ==
    LET turn_duration ==
            IF turn_start_time # None /\ last_speech_time # None
            THEN last_speech_time - turn_start_time ELSE 0
    IN /\ total_turns' = IF turn_duration > 0 THEN total_turns + 1
                         ELSE total_turns
       /\ total_speech_duration' = total_speech_duration + turn_duration
       /\ average_turn_length' =
            << total_speech_duration + turn_duration, total_turns + 1 >>

\* "Calculate turn statistics" of _complete_turn
UpdateStatistics ==
    LET turn_duration ==
            IF turn_start_time # None /\ last_speech_time # None
            THEN last_speech_time - turn_start_time ELSE 0
    IN /\ total_turns' = total_turns + 1
       /\ total_speech_duration' = total_speech_duration + turn_duration
       /\ average_turn_length' =
            << total_speech_duration + turn_duration, total_turns + 1 >>

\* (mutant) the callback is handed the segment list itself, which the reset
\* after a plain callback has cleared by the end of the step
CallbackArgs_Alias ==
    [text |-> current_turn_text, segments |-> speech_segments']

\* self.turn_complete_callback(self.current_turn_text,
\*                             self.speech_segments.copy())
CallbackArgs == [text |-> current_turn_text, segments |-> speech_segments]

\* The event of a step in which the callback was called.
Call(op, by, out) == [Ev(op, by, out) EXCEPT !.args = CallbackArgs]

\* _complete_turn up to the first suspension, called in task t (0: by
\* force_complete_turn).  op names the caller in the event.
CompleteTurn(t, op) ==
    IF Guarded
    THEN /\ ev' = Ev(op, t, "guarded")
         /\ KeepTurnState(t)
         /\ UNCHANGED << is_processing, total_turns, total_speech_duration,
                         average_turn_length, force_pc, delivered,
                         invocations >>
    ELSE /\ total_turns < MaxTurns
         /\ UpdateStatistics
         /\ IF turn_complete_callback # "None" /\ Strip(current_turn_text) # <<>>
            THEN /\ invocations' = invocations + 1
                 /\ IF turn_complete_callback = "sync"
                    THEN \/ /\ ResetTurnState(t)
                            /\ ev' = Call(op, t, "sync_ok")
                            /\ UNCHANGED << is_processing, force_pc >>
                         \/ /\ callback_raises
                            /\ KeepTurnState(t)
                            /\ ev' = Call(op, t, "sync_raise")
                            /\ delivered' = SegIds(speech_segments)
                            /\ UNCHANGED << is_processing, force_pc >>
                    ELSE /\ is_processing' = TRUE
                         /\ delivered' = SegIds(speech_segments)
                         /\ IF t = 0
                            THEN force_pc' = "cb" /\ UNCHANGED tasks
                            ELSE /\ tasks' = [tasks EXCEPT ![t].state = "cb"]
                                 /\ UNCHANGED force_pc
                         /\ UNCHANGED << speech_segments, current_turn_text,
                                         turn_start_time, last_speech_time,
                                         silence_timer_task >>
                         /\ ev' = Call(op, t, "await")
            ELSE /\ ev' = Ev(op, t, "no_callback")
                 /\ ResetTurnState(t)
                 /\ UNCHANGED << is_processing, force_pc, invocations >>

\* ----------------------------------------------------- the silence timer
\* asyncio.sleep returns in task t: its timer handle has fired.
TimerElapse(t) ==
    /\ tasks[t].state = "sleep"
    /\ ~tasks[t].cancel
    /\ tasks[t].deadline <= now
    /\ tasks' = [tasks EXCEPT ![t].state = "ready"]
    /\ ev' = Other
    /\ UNCHANGED << sessionVars, markup, invocations, config, speech_segments,
                    last_speech_time, turn_start_time,
                    current_turn_text, silence_timer_task, is_processing,
                    turn_complete_callback, callback_raises, total_turns,
                    total_speech_duration, average_turn_length, now, force_pc,
                    delivered >>

\* (mutant) a cancellation that arrives after the sleep has elapsed is lost
SleepCancelled_OnlyAsleep(t) == tasks[t].cancel /\ tasks[t].state = "sleep"

\* "await asyncio.sleep(...)" raises CancelledError in task t when the task
\* was cancelled, whether or not the sleep had elapsed by then.
SleepCancelled(t) == tasks[t].cancel

\* _silence_timeout_handler after its sleep
TimerRun(t) ==
    /\ tasks[t].state = "ready"
    /\ ~SleepCancelled(t)
    /\ IF ShouldProcessTurn
       THEN CompleteTurn(t, "timer")
       ELSE /\ ev' = Ev("timer", t, "reject")
            /\ ResetTurnState(t)
            /\ UNCHANGED << is_processing, total_turns, total_speech_duration,
                            average_turn_length, force_pc, invocations >>
    /\ UNCHANGED << sessionVars, markup, config, turn_complete_callback, callback_raises,
                    now >>

\* The CancelledError reaches task t: in the sleep it is swallowed by the
\* handler's except clause; in the awaited callback it unwinds _complete_turn
\* through its finally clause first.
TimerCancelled(t) ==
    /\ tasks[t].state # "done"
    /\ \/ tasks[t].state = "cb" /\ tasks[t].cancel
       \/ tasks[t].state \in {"sleep", "ready"} /\ SleepCancelled(t)
    /\ is_processing' = IF tasks[t].state = "cb" THEN FALSE ELSE is_processing
    /\ tasks' = Finish(tasks, t)
    /\ ev' = Ev("cancelled", t, tasks[t].state)
    /\ UNCHANGED << sessionVars, markup, invocations, config, speech_segments,
                    last_speech_time, turn_start_time,
                    current_turn_text, silence_timer_task,
                    turn_complete_callback, callback_raises, total_turns,
                    total_speech_duration, average_turn_length, now, force_pc,
                    delivered >>

\* The awaited callback returns in task t (0: in force_complete_turn):
\* _complete_turn resets the turn and releases the guard.
CallbackReturn(t) ==
    /\ IF t = 0 THEN force_pc = "cb"
       ELSE tasks[t].state = "cb" /\ ~tasks[t].cancel
    /\ ResetTurnState(t)
    /\ is_processing' = FALSE
    /\ force_pc' = IF t = 0 THEN "idle" ELSE force_pc
    /\ ev' = Ev("cb_return", t, "")
    /\ UNCHANGED << sessionVars, markup, invocations, config, turn_complete_callback,
                    callback_raises,
                    total_turns, total_speech_duration, average_turn_length,
                    now >>

\* The awaited callback raises in task t: only the finally clause runs.
CallbackRaise(t) ==
    /\ IF t = 0 THEN force_pc = "cb"
       ELSE tasks[t].state = "cb" /\ ~tasks[t].cancel
    /\ callback_raises
    /\ KeepTurnState(t)
    /\ is_processing' = FALSE
    /\ force_pc' = IF t = 0 THEN "idle" ELSE force_pc
    /\ ev' = Ev("cb_raise", t, "")
    /\ UNCHANGED << sessionVars, markup, invocations, config, turn_complete_callback,
                    callback_raises,
                    total_turns, total_speech_duration, average_turn_length,
                    now, delivered >>

\* force_complete_turn
ForceCompleteTurn ==
    /\ force_pc = "idle"
    /\ IF Strip(current_turn_text) # <<>>
       THEN CompleteTurn(0, "force")
       ELSE /\ ev' = Ev("force", 0, "noop")
            /\ UNCHANGED << speech_segments, last_speech_time, turn_start_time,
                            current_turn_text, silence_timer_task,
                            is_processing, total_turns, total_speech_duration,
                            average_turn_length, tasks, force_pc, delivered,
                            invocations >>
    /\ UNCHANGED << sessionVars, markup, config, turn_complete_callback, callback_raises,
                    now >>

\* get_statistics
GetStatistics ==
    [total_turns |-> total_turns,
     total_speech_duration |-> total_speech_duration,
     average_turn_length |-> average_turn_length,
     current_turn_length |-> Len(current_turn_text),
     is_processing |-> is_processing,
     has_active_turn |-> turn_start_time # None]

\* (mutant) reset clears the turn and keeps the statistics
Reset_TurnOnly ==
    /\ ResetTurnState(0)
    /\ ev' = Ev("reset", 0, "")
    /\ invocations' = 0
    /\ UNCHANGED << sessionVars, markup, config, is_processing, turn_complete_callback,
                    callback_raises, now, force_pc, total_turns,
                    total_speech_duration, average_turn_length >>

\* (mutant) reset zeroes the statistics and keeps the turn and its timer
Reset_StatisticsOnly ==
    /\ total_turns' = 0
    /\ total_speech_duration' = 0
    /\ average_turn_length' = <<0, 1>>
    /\ ev' = Ev("reset", 0, "")
    /\ invocations' = 0
    /\ UNCHANGED << sessionVars, markup, config, is_processing,
                    turn_complete_callback, callback_raises, now, force_pc,
                    speech_segments, current_turn_text, turn_start_time,
                    last_speech_time, delivered, tasks, silence_timer_task >>

\* reset
Reset ==
    /\ ResetTurnState(0)
    /\ total_turns' = 0
    /\ total_speech_duration' = 0
    /\ average_turn_length' = <<0, 1>>
    /\ ev' = Ev("reset", 0, "")
    /\ invocations' = 0
    /\ UNCHANGED << sessionVars, markup, config, is_processing, turn_complete_callback,
                    callback_raises, now, force_pc >>

\* The keyword arguments of a call of update_config, in the order given:
\* pairs <<key, value>> with distinct keys.
Kwargs ==
    { kw \in UNION { [1..n -> KwargKeys \X ConfigValues] : n \in 0..MaxKwargs } :
        \A i, j \in DOMAIN kw : i # j => kw[i][1] # kw[j][1] }

\* hasattr(self.config, key)
HasAttr(key) == key \in ConfigKeys \cup ObjectAttrs

\* The loop of update_config over the keywords kw, from the config cfg:
\* setattr on a field stores the value; setattr(config, "__class__", value)
\* with a number raises TypeError, which ends the loop and the call.
RECURSIVE ApplyKwargs(_, _)
ApplyKwargs(cfg, kw) ==
    IF kw = <<>> THEN [config |-> cfg, raised |-> FALSE]
    ELSE LET key == kw[1][1]
             value == kw[1][2]
         IN IF HasAttr(key)
            THEN IF key \in ObjectAttrs
                 THEN [config |-> cfg, raised |-> TRUE]
                 ELSE ApplyKwargs([cfg EXCEPT ![key] = value], Tail(kw))
            ELSE ApplyKwargs(cfg, Tail(kw))

\* update_config(**kwargs)
UpdateConfig(kwargs) ==
    /\ config' = ApplyKwargs(config, kwargs).config
    /\ ev' = Ev("update_config", 0,
                IF ApplyKwargs(config, kwargs).raised THEN "TypeError"
                ELSE "returned")
    /\ UNCHANGED << sessionVars, markup, invocations, speech_segments, last_speech_time,
                    turn_start_time,
                    current_turn_text, silence_timer_task, is_processing,
                    turn_complete_callback, callback_raises, total_turns,
                    total_speech_duration, average_turn_length, now, tasks,
                    force_pc, delivered >>

\* The recogniser delivers at most cap non-empty final segments.
WithinBudget(cap, text, is_final) ==
    (is_final /\ Strip(text) # <<>>) => Len(tasks) < cap

NextFor(cap) ==
    \/ \E text \in Texts, is_final \in BOOLEAN :
          WithinBudget(cap, text, is_final) /\ AddSpeechSegment(text, is_final)
    \/ Tick
    \/ \E t \in 1..Len(tasks) : TimerElapse(t)
    \/ \E t \in 1..Len(tasks) : TimerRun(t)
    \/ \E t \in 1..Len(tasks) : TimerCancelled(t)
    \/ \E t \in 0..Len(tasks) : CallbackReturn(t)
    \/ \E t \in 0..Len(tasks) : CallbackRaise(t)
    \/ ForceCompleteTurn
    \/ Reset

Next == NextFor(MaxSegs)

Spec == Init /\ [][Next]_vars

\* The same detector fed one more segment, for turns of three segments.
NextLong == NextFor(MaxSegs + 1)

SpecLong == Init /\ [][NextLong]_vars

\* The detector with its configuration updated at run time as well, fed one
\* segment fewer.
NextConfig ==
    \/ NextFor(MaxSegs - 1)
    \/ \E kwargs \in Kwargs : UpdateConfig(kwargs)

SpecConfig == Init /\ [][NextConfig]_vars

\* ==================================================== _add_natural_pauses
\* A text is a sequence of characters.  An ASCII character is the string
\* holding it, an Arabic letter is the string naming its code point
\* ("U+0646"), and a pause directive <break time="...ms"/> is one element,
\* the string holding the whole directive.

\* The emotion labels the orchestration layer gives.
Emotions == {"calm", "encouraging", "excited", "sad", "neutral"}

\* The pause directives the function writes.
BreakTags ==
    { "<break time=\"100ms\"/>", "<break time=\"150ms\"/>",
      "<break time=\"200ms\"/>", "<break time=\"250ms\"/>",
      "<break time=\"300ms\"/>", "<break time=\"350ms\"/>",
      "<break time=\"400ms\"/>", "<break time=\"450ms\"/>",
      "<break time=\"500ms\"/>", "<break time=\"550ms\"/>",
      "<break time=\"600ms\"/>", "<break time=\"650ms\"/>",
      "<break time=\"700ms\"/>", "<break time=\"800ms\"/>" }

\* <break time="[^"]*"/>
IsBreak(c) == c \in BreakTags

LowerLetters ==
    { "a", "b", "c", "d", "e", "f", "g", "h", "i", "j", "k", "l", "m",
      "n", "o", "p", "q", "r", "s", "t", "u", "v", "w", "x", "y", "z" }
Digits == {"0", "1", "2", "3", "4", "5", "6", "7", "8", "9"}
\* The Arabic letters of the markers and hesitation words.
ArabicLetters ==
    { "U+0623", "U+0625", "U+0626", "U+0627", "U+0628", "U+0629", "U+062A",
      "U+062C", "U+062D", "U+062E", "U+062F", "U+0631", "U+0632", "U+0633",
      "U+0634", "U+0637", "U+0639", "U+0641", "U+0642", "U+0644", "U+0645",
      "U+0646", "U+0647", "U+0648", "U+064A" }

\* The case folding of re.IGNORECASE.
LowerOf ==
    ("A" :> "a") @@ ("B" :> "b") @@ ("C" :> "c") @@ ("D" :> "d") @@
    ("E" :> "e") @@ ("F" :> "f") @@ ("G" :> "g") @@ ("H" :> "h") @@
    ("I" :> "i") @@ ("J" :> "j") @@ ("K" :> "k") @@ ("L" :> "l") @@
    ("M" :> "m") @@ ("N" :> "n") @@ ("O" :> "o") @@ ("P" :> "p") @@
    ("Q" :> "q") @@ ("R" :> "r") @@ ("S" :> "s") @@ ("T" :> "t") @@
    ("U" :> "u") @@ ("V" :> "v") @@ ("W" :> "w") @@ ("X" :> "x") @@
    ("Y" :> "y") @@ ("Z" :> "z")
Lower(c) == IF c \in DOMAIN LowerOf THEN LowerOf[c] ELSE c
\* c as a pattern sees it, with or without re.IGNORECASE.
Fold(ci, c) == IF ci THEN Lower(c) ELSE c

\* \w
IsWord(c) ==
    \/ Lower(c) \in LowerLetters
    \/ c \in Digits \cup {"_"} \cup ArabicLetters

\* \b before position i of s
Boundary(s, i) ==
    ((i - 1) \in 1..Len(s) /\ IsWord(s[i - 1]))
        # (i \in 1..Len(s) /\ IsWord(s[i]))

\* pat occurs in s at position i
StartsWith(s, i, pat, ci) ==
    /\ i + Len(pat) - 1 <= Len(s)
    /\ \A k \in 1..Len(pat) : Fold(ci, s[i + k - 1]) = Fold(ci, pat[k])

\* The length of the longest run of elements of the set cs from position i.
RECURSIVE RunLen(_, _, _)
RunLen(s, i, cs) ==
    IF i <= Len(s) /\ s[i] \in cs THEN 1 + RunLen(s, i + 1, cs) ELSE 0

\* The position of the first c after position i, or 0.
RECURSIVE FirstAfter(_, _, _)
FirstAfter(s, i, c) ==
    IF i >= Len(s) THEN 0
    ELSE IF s[i + 1] = c THEN i + 1 ELSE FirstAfter(s, i + 1, c)

\* (<break time="[^"]*"/>\s*)* from position i: the number of directives
\* and the length matched.
RECURSIVE BreakRun(_, _)
BreakRun(s, i) ==
    IF i <= Len(s) /\ IsBreak(s[i])
    THEN LET w == RunLen(s, i + 1, {" "})
             r == BreakRun(s, i + 1 + w)
         IN [count |-> 1 + r.count, len |-> 1 + w + r.len]
    ELSE [count |-> 0, len |-> 0]

\* A rule is one re.sub: its kind of pattern, the pattern's text, the
\* replacement and whether flags=re.IGNORECASE is given.
Rule(kind, pat, rep, ci) == [kind |-> kind, pat |-> pat, rep |-> rep, ci |-> ci]

\* The length of the match of the rule's pattern at position i of s, or 0
\* when it does not match.
MatchLen(rule, s, i) ==
    CASE rule.kind = "literal" ->
           IF StartsWith(s, i, rule.pat, rule.ci) THEN Len(rule.pat) ELSE 0
      [] rule.kind = "word" ->          \* \bpat\b
           IF /\ StartsWith(s, i, rule.pat, rule.ci)
              /\ Boundary(s, i)
              /\ Boundary(s, i + Len(rule.pat))
           THEN Len(rule.pat) ELSE 0
      [] rule.kind = "run" ->           \* c{3,}
           IF RunLen(s, i, {rule.pat[1]}) >= 3
           THEN RunLen(s, i, {rule.pat[1]}) ELSE 0
      [] rule.kind = "uhm" ->           \* \buh+m+\b, ignoring case
           LET h == RunLen(s, i + 1, {"h", "H"})
               m == RunLen(s, i + 1 + h, {"m", "M"})
           IN IF /\ s[i] \in {"u", "U"} /\ h >= 1 /\ m >= 1
                 /\ Boundary(s, i)
                 /\ Boundary(s, i + 1 + h + m)
              THEN 1 + h + m ELSE 0
      [] rule.kind = "ah" ->            \* \bah+\b, ignoring case
           LET h == RunLen(s, i + 1, {"h", "H"})
           IN IF /\ s[i] \in {"a", "A"} /\ h >= 1
                 /\ Boundary(s, i)
                 /\ Boundary(s, i + 1 + h)
              THEN 1 + h ELSE 0
      [] rule.kind = "punct" ->         \* ([...])\s+
           IF /\ \E k \in 1..Len(rule.pat) : s[i] = rule.pat[k]
              /\ RunLen(s, i + 1, {" "}) >= 1
           THEN 1 + RunLen(s, i + 1, {" "}) ELSE 0
      [] rule.kind = "asterisks" ->     \* \*[^*]*\*
           IF s[i] = "*" /\ FirstAfter(s, i, "*") # 0
           THEN FirstAfter(s, i, "*") - i + 1 ELSE 0
      [] rule.kind = "paren" ->         \* \([^)]*pat[^)]*\)
           LET j == FirstAfter(s, i, ")")
           IN IF /\ s[i] = "(" /\ j # 0
                 /\ \E k \in (i + 1)..(j - Len(rule.pat)) :
                        StartsWith(s, k, rule.pat, rule.ci)
              THEN j - i + 1 ELSE 0
      [] rule.kind = "breaks" ->        \* (<break time="[^"]*"/>\s*){2,}
           IF BreakRun(s, i).count >= 2 THEN BreakRun(s, i).len ELSE 0
      [] rule.kind = "spaces" ->        \* \s+
           RunLen(s, i, {" "})

\* What the match of length n at position i of s is replaced by: the
\* rule's replacement, with \1 the matched punctuation mark.
Replacement(rule, s, i, n) ==
    IF rule.kind = "punct" THEN <<s[i]>> \o rule.rep \o <<" ">> ELSE rule.rep

\* re.sub from position i on: the leftmost match is replaced and the scan
\* goes on behind it.
RECURSIVE Scan(_, _, _)
Scan(rule, s, i) ==
    IF i > Len(s) THEN <<>>
    ELSE LET n == MatchLen(rule, s, i)
         IN IF n > 0
            THEN Replacement(rule, s, i, n) \o Scan(rule, s, i + n)
            ELSE <<s[i]>> \o Scan(rule, s, i + 1)

\* re.sub(pattern, replacement, text[, flags=re.IGNORECASE])
ReSub(rule, s) == Scan(rule, s, 1)

\* The rules of a list applied one after the other (no rule matches in an
\* empty text).
RECURSIVE ApplyRules(_, _)
ApplyRules(rules, s) ==
    IF rules = <<>> \/ s = <<>> THEN s
    ELSE ApplyRules(Tail(rules), ReSub(Head(rules), s))

\* STAGE 1: emotion_patterns, in the order of the dict; every pattern is a
\* literal text, applied with flags=re.IGNORECASE.
emotion_patterns ==
    << Rule("literal",
            <<"*", "s", "o", "f", "t", " ", "s", "i", "g", "h", "*">>,
            <<"<break time=\"500ms\"/>">>, TRUE),
       Rule("literal",
            <<"*", "g", "e", "n", "t", "l", "e", " ", "s", "i", "g", "h", "*">>,
            <<"<break time=\"450ms\"/>">>, TRUE),
       Rule("literal",
            <<"*", "d", "e", "e", "p", " ", "s", "i", "g", "h", "*">>,
            <<"<break time=\"600ms\"/>">>, TRUE),
       Rule("literal",
            <<"*", "r", "e", "l", "i", "e", "v", "e", "d", " ", "s", "i",
              "g", "h", "*">>,
            <<"<break time=\"400ms\"/>">>, TRUE),
       Rule("literal",
            <<"*", "t", "i", "r", "e", "d", " ", "s", "i", "g", "h", "*", "/">>,
            <<"<break time=\"550ms\"/>">>, TRUE),
       Rule("literal",
            <<"*", "s", "a", "d", " ", "s", "i", "g", "h", "*">>,
            <<"<break time=\"650ms\"/>">>, TRUE),
       Rule("literal",
            <<"*", "t", "h", "o", "u", "g", "h", "t", "f", "u", "l", " ",
              "s", "i", "g", "h", "*">>,
            <<"<break time=\"500ms\"/>">>, TRUE),
       Rule("literal",
            <<"*", "p", "r", "o", "u", "d", " ", "s", "i", "g", "h", "*">>,
            <<"<break time=\"400ms\"/>">>, TRUE),
       Rule("literal",
            <<"*", "s", "o", "f", "t", " ", "p", "a", "u", "s", "e", "*">>,
            <<"<break time=\"400ms\"/>">>, TRUE),
       Rule("literal",
            <<"*", "g", "e", "n", "t", "l", "e", " ", "p", "a", "u", "s",
              "e", "*">>,
            <<"<break time=\"350ms\"/>">>, TRUE),
       Rule("literal",
            <<"*", "t", "h", "o", "u", "g", "h", "t", "f", "u", "l", " ",
              "p", "a", "u", "s", "e", "*">>,
            <<"<break time=\"500ms\"/>">>, TRUE),
       Rule("literal",
            <<"*", "e", "n", "c", "o", "u", "r", "a", "g", "i", "n", "g",
              " ", "p", "a", "u", "s", "e", "*">>,
            <<"<break time=\"300ms\"/>">>, TRUE),
       Rule("literal",
            <<"*", "r", "e", "a", "s", "s", "u", "r", "i", "n", "g", " ",
              "p", "a", "u", "s", "e", "*">>,
            <<"<break time=\"350ms\"/>">>, TRUE),
       Rule("literal",
            <<"*", "c", "o", "n", "t", "e", "m", "p", "l", "a", "t", "i",
              "v", "e", " ", "p", "a", "u", "s", "e", "*">>,
            <<"<break time=\"550ms\"/>">>, TRUE),
       Rule("literal",
            <<"*", "e", "x", "c", "i", "t", "e", "d", " ", "p", "a", "u",
              "s", "e", "*">>,
            <<"<break time=\"200ms\"/>">>, TRUE),
       Rule("literal",
            <<"*", "c", "a", "l", "m", "i", "n", "g", " ", "p", "a", "u",
              "s", "e", "*">>,
            <<"<break time=\"450ms\"/>">>, TRUE),
       Rule("literal",
            <<"*", "U+062A", "U+0646", "U+0647", "U+062F", " ", "U+062E",
              "U+0641", "U+064A", "U+0641", "*">>,
            <<"<break time=\"500ms\"/>">>, TRUE),
       Rule("literal",
            <<"*", "U+062A", "U+0646", "U+0647", "U+062F", " ", "U+0639",
              "U+0645", "U+064A", "U+0642", "*">>,
            <<"<break time=\"600ms\"/>">>, TRUE),
       Rule("literal",
            <<"*", "U+062A", "U+0646", "U+0647", "U+062F", " ", "U+062D",
              "U+0632", "U+064A", "U+0646", "*">>,
            <<"<break time=\"650ms\"/>">>, TRUE),
       Rule("literal",
            <<"*", "U+062A", "U+0646", "U+0647", "U+062F", " ", "U+0645",
              "U+0637", "U+0645", "U+0626", "U+0646", "*">>,
            <<"<break time=\"400ms\"/>">>, TRUE),
       Rule("literal",
            <<"*", "U+0648", "U+0642", "U+0641", "U+0629", " ", "U+062E",
              "U+0641", "U+064A", "U+0641", "U+0629", "*">>,
            <<"<break time=\"350ms\"/>">>, TRUE),
       Rule("literal",
            <<"*", "U+0648", "U+0642", "U+0641", "U+0629", " ", "U+0645",
              "U+0637", "U+0645", "U+0626", "U+0646", "U+0629", "*">>,
            <<"<break time=\"350ms\"/>">>, TRUE),
       Rule("literal",
            <<"*", "U+0648", "U+0642", "U+0641", "U+0629", " ", "U+0645",
              "U+062A", "U+0623", "U+0645", "U+0644", "U+0629", "*">>,
            <<"<break time=\"500ms\"/>">>, TRUE),
       Rule("literal",
            <<"*", "U+0648", "U+0642", "U+0641", "U+0629", " ", "U+0645",
              "U+0634", "U+062C", "U+0639", "U+0629", "*">>,
            <<"<break time=\"300ms\"/>">>, TRUE),
       Rule("literal",
            <<"*", "U+0648", "U+0642", "U+0641", "U+0629", " ", "U+0641",
              "U+0631", "U+062D", "U+0629", "*">>,
            <<"<break time=\"250ms\"/>">>, TRUE),
       Rule("literal",
            <<"*", "U+0648", "U+0642", "U+0641", "U+0629", " ", "U+0647",
              "U+0627", "U+062F", "U+0626", "U+0629", "*">>,
            <<"<break time=\"450ms\"/>">>, TRUE),
       Rule("literal",
            <<"*", "d", "e", "e", "p", " ", "b", "r", "e", "a", "t", "h", "*">>,
            <<"<break time=\"700ms\"/>">>, TRUE),
       Rule("literal",
            <<"*", "b", "r", "e", "a", "t", "h", "e", "*">>,
            <<"<break time=\"600ms\"/>">>, TRUE),
       Rule("literal",
            <<"*", "i", "n", "h", "a", "l", "e", "*">>,
            <<"<break time=\"500ms\"/>">>, TRUE),
       Rule("literal",
            <<"*", "e", "x", "h", "a", "l", "e", "*">>,
            <<"<break time=\"500ms\"/>">>, TRUE),
       Rule("literal",
            <<"*", "U+062A", "U+0646", "U+0641", "U+0633", " ", "U+0639",
              "U+0645", "U+064A", "U+0642", "*">>,
            <<"<break time=\"700ms\"/>">>, TRUE),
       Rule("literal",
            <<"*", "U+0634", "U+0647", "U+064A", "U+0642", "*">>,
            <<"<break time=\"500ms\"/>">>, TRUE),
       Rule("literal",
            <<"*", "U+0632", "U+0641", "U+064A", "U+0631", "*">>,
            <<"<break time=\"500ms\"/>">>, TRUE),
       Rule("literal",
            <<"*", "w", "h", "i", "s", "p", "e", "r", "e", "d", "*">>,
            <<>>, TRUE),
       Rule("literal",
            <<"*", "s", "o", "f", "t", "l", "y", "*">>,
            <<>>, TRUE),
       Rule("literal",
            <<"*", "g", "e", "n", "t", "l", "y", "*">>,
            <<>>, TRUE),
       Rule("literal",
            <<"*", "w", "a", "r", "m", "l", "y", "*">>,
            <<>>, TRUE),
       Rule("literal",
            <<"*", "q", "u", "i", "e", "t", "l", "y", "*">>,
            <<>>, TRUE),
       Rule("literal",
            <<"*", "U+0628", "U+0647", "U+0645", "U+0633", "*">>,
            <<>>, TRUE),
       Rule("literal",
            <<"*", "U+0628", "U+0644", "U+0637", "U+0641", "*">>,
            <<>>, TRUE),
       Rule("literal",
            <<"*", "U+0628", "U+062D", "U+0646", "U+0627", "U+0646", "*">>,
            <<>>, TRUE) >>

\* STAGE 2: ellipses, simple sighs and hesitation markers.
BasicExpressions ==
    << Rule("run", <<".">>, <<"<break time=\"800ms\"/>">>, FALSE),
       Rule("run", <<"_">>, <<"<break time=\"600ms\"/>">>, FALSE),
       Rule("literal", <<"<", "s", "i", "g", "h", ">">>,
            <<"<break time=\"400ms\"/>">>, FALSE),
       Rule("literal", <<"*", "s", "i", "g", "h", "*">>,
            <<"<break time=\"400ms\"/>">>, FALSE),
       Rule("literal", <<"(", "s", "i", "g", "h", ")">>,
            <<"<break time=\"400ms\"/>">>, FALSE),
       Rule("uhm", <<>>,
            <<"<break time=\"300ms\"/>", "u", "m", "<break time=\"200ms\"/>">>,
            TRUE),
       Rule("ah", <<>>,
            <<"<break time=\"250ms\"/>", "a", "h", "<break time=\"150ms\"/>">>,
            TRUE),
       Rule("word", <<"w", "e", "l", "l">>,
            <<"w", "e", "l", "l", "<break time=\"200ms\"/>">>, TRUE),
       Rule("word", <<"y", "o", "u", " ", "k", "n", "o", "w">>,
            <<"y", "o", "u", " ", "k", "n", "o", "w",
              "<break time=\"150ms\"/>">>, TRUE),
       Rule("word", <<"U+064A", "U+0639", "U+0646", "U+064A">>,
            <<"U+064A", "U+0639", "U+0646", "U+064A",
              "<break time=\"200ms\"/>">>, FALSE),
       Rule("word", <<"U+0623", "U+0647">>,
            <<"U+0623", "U+0647", "<break time=\"150ms\"/>">>, FALSE),
       Rule("word", <<"U+0625", "U+0645">>,
            <<"U+0625", "U+0645", "<break time=\"200ms\"/>">>, FALSE) >>

\* STAGE 3: the pauses after sentence ends and after commas.
EmotionPauses(emotion) ==
    IF emotion = "excited"
    THEN << Rule("punct", <<".", "!", "?">>,
                 <<"<break time=\"150ms\"/>">>, FALSE),
            Rule("punct", <<",">>, <<"<break time=\"100ms\"/>">>, FALSE) >>
    ELSE IF emotion \in {"calm", "sad"}
    THEN << Rule("punct", <<".", "!", "?">>,
                 <<"<break time=\"400ms\"/>">>, FALSE),
            Rule("punct", <<",">>, <<"<break time=\"250ms\"/>">>, FALSE) >>
    ELSE << Rule("punct", <<".", "!", "?">>,
                 <<"<break time=\"300ms\"/>">>, FALSE),
            Rule("punct", <<",">>, <<"<break time=\"150ms\"/>">>, FALSE) >>

\* (mutant) STAGE 4 without the removal of the remaining *...* markers
Cleanup_KeepsMarkers ==
    << Rule("paren", <<"p", "a", "u", "s", "e">>,
            <<"<break time=\"300ms\"/>">>, TRUE),
       Rule("paren", <<"s", "i", "g", "h">>,
            <<"<break time=\"400ms\"/>">>, TRUE),
       Rule("breaks", <<>>, <<"<break time=\"600ms\"/>">>, FALSE),
       Rule("spaces", <<>>, <<" ">>, FALSE) >>

\* (mutant) STAGE 4 without the collapse of consecutive breaks
Cleanup_KeepsRuns ==
    << Rule("asterisks", <<>>, <<>>, FALSE),
       Rule("paren", <<"p", "a", "u", "s", "e">>,
            <<"<break time=\"300ms\"/>">>, TRUE),
       Rule("paren", <<"s", "i", "g", "h">>,
            <<"<break time=\"400ms\"/>">>, TRUE),
       Rule("spaces", <<>>, <<" ">>, FALSE) >>

\* STAGE 4: remaining markers, consecutive breaks, whitespace.
Cleanup ==
    << Rule("asterisks", <<>>, <<>>, FALSE),
       Rule("paren", <<"p", "a", "u", "s", "e">>,
            <<"<break time=\"300ms\"/>">>, TRUE),
       Rule("paren", <<"s", "i", "g", "h">>,
            <<"<break time=\"400ms\"/>">>, TRUE),
       Rule("breaks", <<>>, <<"<break time=\"600ms\"/>">>, FALSE),
       Rule("spaces", <<>>, <<" ">>, FALSE) >>

\* _add_natural_pauses(text, emotion)
AddNaturalPauses(text, emotion) ==
    Strip(ApplyRules(Cleanup,
          ApplyRules(EmotionPauses(emotion),
          ApplyRules(BasicExpressions,
          ApplyRules(emotion_patterns, text)))))

\* ------------------------------------------- the texts given to the function
\* The asterisk-delimited marker a pattern of emotion_patterns is written
\* for: the pattern's text up to its second asterisk.
MarkerOf(pat) == SubSeq(pat, 1, FirstAfter(pat, 1, "*"))

\* The markers of the substitution table, and those of them that stand for a
\* sigh, a pause or a breath (the ones replaced by a pause directive).
Markers ==
    { MarkerOf(emotion_patterns[k].pat) : k \in 1..Len(emotion_patterns) }
PauseRules ==
    { k \in 1..Len(emotion_patterns) : emotion_patterns[k].rep # <<>> }

\* str.upper() on a character.
UpperOf ==
    ("a" :> "A") @@ ("b" :> "B") @@ ("c" :> "C") @@ ("d" :> "D") @@
    ("e" :> "E") @@ ("f" :> "F") @@ ("g" :> "G") @@ ("h" :> "H") @@
    ("i" :> "I") @@ ("j" :> "J") @@ ("k" :> "K") @@ ("l" :> "L") @@
    ("m" :> "M") @@ ("n" :> "N") @@ ("o" :> "O") @@ ("p" :> "P") @@
    ("q" :> "Q") @@ ("r" :> "R") @@ ("s" :> "S") @@ ("t" :> "T") @@
    ("u" :> "U") @@ ("v" :> "V") @@ ("w" :> "W") @@ ("x" :> "X") @@
    ("y" :> "Y") @@ ("z" :> "Z")
Upper(c) == IF c \in DOMAIN UpperOf THEN UpperOf[c] ELSE c
UpperSeq(s) == [i \in 1..Len(s) |-> Upper(s[i])]

\* A marker as written in the table, in capitals, and with a capital first
\* letter.
CaseVariants(m) == { m, UpperSeq(m), [m EXCEPT ![2] = Upper(m[2])] }

\* "hello {marker} world"
HelloWorld(m) ==
    <<"h", "e", "l", "l", "o", " ">> \o m \o <<" ", "w", "o", "r", "l", "d">>

\* "Thank you... *soft sigh* ...I understand"
Scenario ==
    <<"T", "h", "a", "n", "k", " ", "y", "o", "u", ".", ".", ".", " ", "*",
      "s", "o", "f", "t", " ", "s", "i", "g", "h", "*", " ", ".", ".", ".",
      "I", " ", "u", "n", "d", "e", "r", "s", "t", "a", "n", "d">>

\* Texts without stage directions: "Hello there.", "Hello there. How are you?", "Well, hello.", "ah, you know".
PlainTexts ==
    { <<"H", "e", "l", "l", "o", " ", "t", "h", "e", "r", "e", ".">>,
      <<"H", "e", "l", "l", "o", " ", "t", "h", "e", "r", "e", ".", " ", "H",
        "o", "w", " ", "a", "r", "e", " ", "y", "o", "u", "?">>,
      <<"W", "e", "l", "l", ",", " ", "h", "e", "l", "l", "o", ".">>,
      <<"a", "h", ",", " ", "y", "o", "u", " ", "k", "n", "o", "w">> }

\* Every text of at most MaxLen characters out of an asterisk, a letter and a
\* space.
ShortTexts ==
    UNION { [1..n -> {"*", "a", " "}] : n \in 0..MaxLen }

\* Every text of at most MaxLen elements out of a pause directive, a letter
\* and a space.
DirectiveTexts ==
    UNION { [1..n -> {"<break time=\"200ms\"/>", "a", " "}] : n \in 0..MaxLen }

\* The hesitation words: "umm", "uhm", "uhhmm", "ah", "ahh", "well",
\* "you know" and the three Arabic ones of STAGE 2.
Fillers ==
    { <<"u", "m", "m">>, <<"u", "h", "m">>, <<"u", "h", "h", "m", "m">>,
      <<"a", "h">>, <<"a", "h", "h">>, <<"w", "e", "l", "l">>,
      <<"y", "o", "u", " ", "k", "n", "o", "w">>,
      <<"U+064A", "U+0639", "U+0646", "U+064A">>,
      <<"U+0623", "U+0647">>, <<"U+0625", "U+0645">> }

\* "I {filler} see"
ISee(f) == <<"I", " ">> \o f \o <<" ", "s", "e", "e">>

MarkupInputs ==
    { HelloWorld(m) : m \in Markers }
        \cup UNION { CaseVariants(m) : m \in Markers }
        \cup {Scenario} \cup PlainTexts \cup ShortTexts \cup DirectiveTexts
        \cup Fillers \cup { ISee(f) : f \in Fillers }

\* A text and an emotion label are given to the function; nothing has been
\* computed yet.
InitPauses ==
    /\ InitDetector
    /\ InitSession
    /\ turn_complete_callback = "None"
    /\ markup \in [text : MarkupInputs, emotion : Emotions, outs : {<<>>}]

\* The text a call works on: the given text, or the output of the call before.
Latest == IF markup.outs = <<>> THEN markup.text
          ELSE markup.outs[Len(markup.outs)]

\* _add_natural_pauses(text, emotion) is called, at most MaxPasses times in a
\* row, each call on the output of the one before.
ApplyPauses ==
    /\ Len(markup.outs) < MaxPasses
    /\ markup' = [markup EXCEPT
                    !.outs = Append(@, AddNaturalPauses(Latest, markup.emotion))]
    /\ UNCHANGED << detectorVars, sessionVars >>

NextPauses == ApplyPauses

SpecPauses == InitPauses /\ [][NextPauses]_vars

\* ======================================================= session memory
\* max_memory_turns
max_memory_turns == 10

\* What the user says: "hi there", or the Arabic for "tired".
UserInputs ==
    { <<"h", "i", " ", "t", "h", "e", "r", "e">>,
      <<"U+062A", "U+0639", "U+0628", "U+0627", "U+0646">> }

\* english_indicators of detect_language
english_indicators ==
    { <<"h", "e", "l", "l", "o">>,
      <<"h", "i">>,
      <<"h", "e", "y">>,
      <<"h", "o", "w", " ", "a", "r", "e", " ", "y", "o", "u">>,
      <<"t", "h", "a", "n", "k", " ", "y", "o", "u">>,
      <<"y", "e", "s">>,
      <<"n", "o">>,
      <<"c", "a", "n", " ", "y", "o", "u">>,
      <<"i", " ", "a", "m">>,
      <<"h", "e", "l", "p", " ", "m", "e">> }

\* detect_language(text)
DetectLanguage(text) ==
    LET s == [i \in 1..Len(Strip(text)) |-> Lower(Strip(text)[i])]
        arabic_chars ==
            Cardinality({ i \in 1..Len(s) : s[i] \in ArabicLetters })
        english_chars ==
            Cardinality({ i \in 1..Len(s) : s[i] \in LowerLetters })
        total_chars == arabic_chars + english_chars
        english_word_count ==
            Cardinality({ w \in english_indicators :
                \E i \in 1..(Len(s) - Len(w) + 1) :
                    SubSeq(s, i, i + Len(w) - 1) = w })
    IN IF Strip(text) = <<>> THEN "ar"
       ELSE IF total_chars = 0 THEN "ar"
       \* english_ratio > 0.5 and english_chars > 3
       ELSE IF 2 * english_chars > total_chars /\ english_chars > 3 THEN "en"
       \* english_word_count >= 1 and english_ratio > 0.3
       ELSE IF english_word_count >= 1 /\ 10 * english_chars > 3 * total_chars
            THEN "en"
       ELSE "ar"

\* The system prompt get_ai_response chooses for a language.
PromptFor(language) ==
    IF language = "en" THEN "system_prompt_english"
    ELSE "system_prompt_arabic"

\* _prepare_messages_for_ai: self.session_memory[-self.max_memory_turns:]
PrepareMessagesForAi(memory) ==
    SubSeq(memory,
           IF Len(memory) > max_memory_turns
           THEN Len(memory) - max_memory_turns + 1 ELSE 1,
           Len(memory))

\* What the two model calls together return: None, an empty text or a text.
AiResponses ==
    { NoResponse, [none |-> FALSE, text |-> <<>>],
      [none |-> FALSE, text |-> <<"o", "k">>] }

\* "if ai_response:"
Truthy(response) == ~response.none /\ response.text # <<>>

\* The user messages in the memory.
UserMessages(memory) ==
    { i \in 1..Len(memory) : memory[i].role = "user" }

\* get_ai_response(user_input, ...) up to the call of the language model.
GetAiResponseCall(user_input) ==
    LET language == DetectLanguage(user_input)
        prompt == PromptFor(language)
        updated ==
            IF session_memory # <<>> /\ session_memory[1].role = "system"
            THEN [session_memory EXCEPT ![1].content = prompt]
            ELSE session_memory
    IN
    /\ ai_pc = "idle"
    /\ Cardinality(UserMessages(session_memory)) < MaxExchanges
    /\ detected_language' = language
    /\ system_prompt' = prompt
    /\ session_memory' =
         Append(updated, ConversationMessage("user", user_input))
    /\ messages' = PrepareMessagesForAi(session_memory')
    /\ ai_pc' = "calling"
    /\ UNCHANGED << ai_response, detectorVars, markup >>

\* (mutant) whatever the language model returned is added to the memory
GetAiResponseReturn_AlwaysAppends(response) ==
    /\ ai_pc = "calling"
    /\ ai_response' = response
    /\ session_memory' =
         Append(session_memory,
                ConversationMessage("assistant", response.text))
    /\ ai_pc' = "idle"
    /\ UNCHANGED << system_prompt, detected_language, messages, detectorVars,
                    markup >>

\* get_ai_response from the answer of the language model on.
GetAiResponseReturn(response) ==
    /\ ai_pc = "calling"
    /\ ai_response' = response
    /\ session_memory' =
         IF Truthy(response)
         THEN Append(session_memory,
                     ConversationMessage("assistant", response.text))
         ELSE session_memory
    /\ ai_pc' = "idle"
    /\ UNCHANGED << system_prompt, detected_language, messages, detectorVars,
                    markup >>

\* reset_session
ResetSession ==
    /\ ai_pc = "idle"
    /\ session_memory' = << ConversationMessage("system", system_prompt) >>
    /\ UNCHANGED << system_prompt, ai_pc, detected_language, messages,
                    ai_response, detectorVars, markup >>

\* A conversation: the detector and the markup function are left alone.
InitConversation ==
    /\ InitDetector
    /\ turn_complete_callback = "None"
    /\ InitSession
    /\ markup = NoMarkup

NextSession ==
    \/ \E user_input \in UserInputs : GetAiResponseCall(user_input)
    \/ \E response \in AiResponses : GetAiResponseReturn(response)
    \/ ResetSession

SpecSession == InitConversation /\ [][NextSession]_vars

\* ================================================================= claims
TurnStateIsReset ==
    /\ current_turn_text = <<>>
    /\ speech_segments = <<>>
    /\ turn_start_time = None
    /\ last_speech_time = None

\* The step is a silence timer's completion check in which the turn-complete
\* callback was called.
TimerInvokes(e) == e.op = "timer" /\ e.out \in InvokedOuts

\* ---------------------------------------------------------------------- C1
\* C1 (debounce): a step that accepts a non-empty final segment leaves every
\* older silence timer finished or cancelled and starts a new one sleeping
\* for the silence timeout; and whenever a silence timer calls the
\* turn-complete callback, at least that timer's length has passed since
\* the most recent non-empty final segment.
C1_SegmentResetsTimer ==
    Len(tasks') = Len(tasks) + 1 =>
        /\ silence_timer_task' = Len(tasks')
        /\ tasks'[Len(tasks')].state = "sleep"
        /\ tasks'[Len(tasks')].delay = config.silence_timeout
        /\ tasks'[Len(tasks')].deadline = now + config.silence_timeout
        /\ \A i \in 1..Len(tasks) :
               tasks'[i].state = "done" \/ tasks'[i].cancel

C1_CallbackNotEarly ==
    TimerInvokes(ev') =>
        /\ last_speech_time # None
        /\ now >= last_speech_time + tasks[ev'.by].delay

C1_Debounce == [][C1_SegmentResetsTimer /\ C1_CallbackNotEarly]_vars

\* Finals at two different times, and the callback called by the timer of
\* the second one exactly one silence timeout after it.
C1_Witness ==
    /\ ev.op = "timer" /\ ev.out = "await"
    /\ Len(speech_segments) = 2
    /\ speech_segments[1].start_time < speech_segments[2].start_time
    /\ now = speech_segments[2].start_time + config.silence_timeout

\* ---------------------------------------------------------------------- C2
\* C2 (exactly-once delivery): with a slow callback that never raises, no
\* silence timer hands the callback a segment that an earlier call of the
\* callback was handed.
C2_ExactlyOnce ==
    [][(TimerInvokes(ev') /\ turn_complete_callback = "async"
                          /\ ~callback_raises)
          => SegIds(speech_segments) \cap delivered = {}]_vars

\* ---------------------------------------------------------------------- C3
\* C3 (callback failure): when a completion ends because the callback
\* raised, the turn state has been reset.
C3_ResetAfterRaise ==
    (ev.op = "cb_raise" \/ ev.out = "sync_raise") => TurnStateIsReset

\* ---------------------------------------------------------------------- C4
\* C4 (re-entrancy guard): at most one completion is in progress;
\* is_processing is true exactly while one is (so it is false again once
\* the completion has returned, raised or been cancelled); and a call of
\* _complete_turn made while is_processing is true returns without calling
\* the callback and without changing statistics or turn state.
InProgress ==
    { t \in 1..Len(tasks) : tasks[t].state = "cb" }
        \cup (IF force_pc = "cb" THEN {0} ELSE {})

C4_OneCompletion ==
    /\ Cardinality(InProgress) <= 1
    /\ is_processing <=> InProgress # {}

C4_GuardedCall ==
    (is_processing /\ ev'.op \in {"timer", "force"}
                   /\ ev'.out \notin {"reject", "noop"}) =>
        /\ ev'.out = "guarded"
        /\ UNCHANGED << speech_segments, current_turn_text, turn_start_time,
                        last_speech_time, total_turns, total_speech_duration,
                        average_turn_length, delivered, is_processing >>

C4_Guard == []C4_OneCompletion /\ [][C4_GuardedCall]_vars

\* A silence timer expired while a forced completion was awaiting the
\* callback, and its call of _complete_turn was turned away.
C4_Witness ==
    /\ ev.op = "timer" /\ ev.out = "guarded"
    /\ is_processing /\ force_pc = "cb"
    /\ current_turn_text # <<>>

\* ---------------------------------------------------------------------- C5
\* C5 (active-turn invariant): turn_start_time is None exactly when no
\* speech is accumulated (empty text and no segments).
C5_TurnStartIffSpeech ==
    (turn_start_time = None) <=>
        (current_turn_text = <<>> /\ speech_segments = <<>>)

\* ---------------------------------------------------------------------- C6
\* C6 (max-duration override, any content): when a silence timer runs its
\* check with a callback registered, no completion in progress, some text
\* accumulated and the turn older than max_turn_duration, the callback is
\* called, however short the text.
C6_MaxDurationOverride ==
    [][(/\ ev'.op = "timer"
        /\ ~is_processing
        /\ turn_complete_callback # "None"
        /\ current_turn_text # <<>>
        /\ turn_start_time # None
        /\ now - turn_start_time > config.max_turn_duration)
          => Invoked(ev')]_vars

\* ---------------------------------------------------------------------- C7
\* C7 (max-duration override, no silence): a turn of final segments whose
\* gaps are all shorter than the silence timeout, that has spanned more than
\* max_turn_duration up to its last segment, has been handed to the
\* callback by the time the clock has moved past that segment.
ContinuousSpeech ==
    /\ speech_segments # <<>>
    /\ turn_start_time = speech_segments[1].start_time
    /\ \A i \in 2..Len(speech_segments) :
           speech_segments[i].start_time - speech_segments[i - 1].start_time
               < config.silence_timeout
    /\ now - last_speech_time < config.silence_timeout

C7_MaxDurationWithoutSilence ==
    (/\ ContinuousSpeech
     /\ turn_complete_callback # "None"
     /\ Len(Strip(current_turn_text)) >= MinChars
     /\ last_speech_time - turn_start_time > config.max_turn_duration
     /\ now > last_speech_time)
        => delivered # {}

\* ---------------------------------------------------------------------- C8
\* C8 as stated (minimum-content rejection): when a silence timer runs its
\* check with a callback registered, then with fewer than 3 characters
\* accumulated the callback is not called, total_turns stays and the turn
\* state is reset, and with 3 or more characters the callback is called.
C8_Rejects ==
    /\ ~Invoked(ev')
    /\ total_turns' = total_turns
    /\ current_turn_text' = <<>>
    /\ speech_segments' = <<>>
    /\ turn_start_time' = None

C8_Original ==
    [][(ev'.op = "timer" /\ turn_complete_callback # "None") =>
          IF Len(Strip(current_turn_text)) < MinChars
          THEN C8_Rejects ELSE Invoked(ev')]_vars

\* C8 as amended: the same, the callback being called with 3 or more
\* characters when no completion is in progress; in one that is in progress
\* the timer's call is turned away by the guard.
C8_MinimumContent ==
    [][(ev'.op = "timer" /\ turn_complete_callback # "None") =>
          IF Len(Strip(current_turn_text)) < MinChars
          THEN C8_Rejects
          ELSE IF is_processing THEN ev'.out = "guarded"
          ELSE Invoked(ev')]_vars

\* The timer of a single final segment "ok" has expired and the turn was
\* dropped.
C8_Witness ==
    /\ ev.op = "timer" /\ ev.out = "reject"
    /\ turn_complete_callback # "None"
    /\ TurnStateIsReset
    /\ total_turns = 0
    /\ Len(tasks) = 1

\* ---------------------------------------------------------------------- C9
\* C9 as stated (threshold on every path): the callback is never called
\* with a text of fewer than 3 characters.
C9_Original ==
    [][Invoked(ev') => Len(Strip(current_turn_text)) >= MinChars]_vars

\* C9 as amended: a silence timer never calls the callback with fewer than
\* 3 characters; force_complete_turn calls it with any non-empty text.
C9_TimerPathThreshold ==
    [][Invoked(ev') =>
          Len(Strip(current_turn_text)) >=
              (IF ev'.op = "timer" THEN MinChars ELSE 1)]_vars

\* A silence timer called the callback with a text of exactly 3 characters.
C9_Witness ==
    /\ ev.op = "timer" /\ ev.out = "await"
    /\ Len(current_turn_text) = MinChars

\* --------------------------------------------------------------------- C10
\* C10 (race-free cancellation): the completion check, and the reset after
\* the awaited callback, are only ever run by a silence timer that was not
\* cancelled and is the most recently started one.
C10_CancelledNeverRuns ==
    [][(ev'.op \in {"timer", "cb_return"} /\ ev'.by # 0) =>
          /\ ~tasks[ev'.by].cancel
          /\ ev'.by = Len(tasks)
          /\ ev'.by = silence_timer_task]_vars

\* A timer whose sleep had already elapsed was cancelled by a newer segment
\* and ended without running its check.
C10_Witness ==
    /\ ev = Ev("cancelled", 1, "ready")
    /\ Len(tasks) = 2 /\ silence_timer_task = 2
    /\ Len(speech_segments) = 2

\* --------------------------------------------------------------------- C11
\* C11 (turn content): the accumulated text is always the stripped texts of
\* the listed segments joined by single spaces; the listed segments are
\* exactly the non-empty finals accepted, in arrival order, since the turn
\* state was last cleared (a step either appends the segment it accepts,
\* clears the list or leaves it); and a silence timer calls the callback
\* with that text and with a list equal to the segment list at the call,
\* whatever the detector does to its own list in the same step.
RECURSIVE JoinStripped(_)
JoinStripped(segs) ==
    IF segs = <<>> THEN <<>>
    ELSE IF Len(segs) = 1 THEN Strip(segs[1].text)
    ELSE JoinStripped(SubSeq(segs, 1, Len(segs) - 1))
             \o <<" ">> \o Strip(segs[Len(segs)].text)

C11_TextIsJoin == current_turn_text = JoinStripped(speech_segments)

C11_SegmentsTrackAccepted ==
    IF Len(tasks') = Len(tasks) + 1
    THEN /\ Len(speech_segments') = Len(speech_segments) + 1
         /\ SubSeq(speech_segments', 1, Len(speech_segments)) = speech_segments
         /\ LET s == speech_segments'[Len(speech_segments')]
            IN /\ s.id = Len(tasks')
               /\ s.is_final
               /\ Strip(s.text) # <<>>
               /\ s.start_time = now
    ELSE speech_segments' \in {speech_segments, <<>>}

C11_CallArgs ==
    TimerInvokes(ev') =>
        /\ ev'.args.text = JoinStripped(speech_segments)
        /\ ev'.args.segments = speech_segments

C11_TurnContent ==
    []C11_TextIsJoin /\ [][C11_SegmentsTrackAccepted /\ C11_CallArgs]_vars

\* A silence timer handed the callback "ok oky" and two segments, after the
\* finals " ok" and "oky".
C11_Witness ==
    /\ TimerInvokes(ev)
    /\ ev.args.text = <<"o", "k", " ", "o", "k", "y">>
    /\ Len(ev.args.segments) = 2
    /\ ev.args.segments[1].text = <<" ", "o", "k">>

\* --------------------------------------------------------------------- C12
\* C12 (segments without committed speech): a call of add_speech_segment
\* with a partial result (any text), or with a final result whose text is
\* empty or whitespace, leaves current_turn_text, speech_segments and
\* last_speech_time as they were and touches no silence timer: none is
\* cancelled, restarted or started.
Uncommitted(text, is_final) == ~is_final \/ Strip(text) = <<>>

C12_UncommittedSegmentFrame ==
    [][(\E text \in Texts, is_final \in BOOLEAN :
           Uncommitted(text, is_final) /\ AddSpeechSegment(text, is_final))
          => UNCHANGED << current_turn_text, speech_segments, last_speech_time,
                          tasks, silence_timer_task >>]_vars

\* A timer whose sleep had elapsed was cancelled by a second final, and
\* after it had ended a segment without committed speech arrived at the same
\* instant: the turn still holds the two finals, and the second final's
\* timer still sleeps towards the deadline that final gave it.
C12_Witness ==
    /\ ev = Other
    /\ Len(tasks) = 2 /\ silence_timer_task = 2
    /\ tasks[1].state = "done"
    /\ tasks[2].state = "sleep" /\ ~tasks[2].cancel
    /\ tasks[2].deadline = now + config.silence_timeout
    /\ Len(speech_segments) = 2
    /\ speech_segments[2].start_time =
           speech_segments[1].start_time + config.silence_timeout
    /\ last_speech_time = now
    /\ current_turn_text = JoinStripped(speech_segments)
    /\ total_turns = 0

\* --------------------------------------------------------------------- C13
\* No silence timer is pending: each one has ended or has been cancelled.
NoPendingTimer ==
    \A i \in 1..Len(tasks) : tasks[i].state = "done" \/ tasks[i].cancel

\* force_complete_turn called the callback with the accumulated text and the
\* segments.
C13_Invokes ==
    /\ Invoked(ev')
    /\ ev'.args = [text |-> current_turn_text, segments |-> speech_segments]

\* The turn state is cleared and the pending timer cancelled.
C13_Cleared == TurnStateIsReset' /\ NoPendingTimer'

\* force_complete_turn did nothing.
C13_NoOp ==
    /\ ~Invoked(ev')
    /\ UNCHANGED << config, speech_segments, last_speech_time, turn_start_time,
                    current_turn_text, silence_timer_task, is_processing,
                    turn_complete_callback, callback_raises, total_turns,
                    total_speech_duration, average_turn_length, now, tasks,
                    force_pc, delivered >>

C14_ZeroedStatistics ==
    ev.op = "reset" =>
        /\ GetStatistics.total_turns = 0
        /\ GetStatistics.total_speech_duration = 0
        /\ GetStatistics.average_turn_length[1] = 0
        /\ GetStatistics.current_turn_length = 0
        /\ GetStatistics.has_active_turn = FALSE

C14_SecondResetNoChange ==
    (ev.op = "reset" /\ ev'.op = "reset") => UNCHANGED vars

C14_Reset == []C14_ZeroedStatistics /\ [][C14_SecondResetNoChange]_vars

\* reset() was called while a silence timer's completion, already counted
\* in total_turns, was awaiting the callback.
C14_Witness ==
    /\ ev.op = "reset"
    /\ is_processing
    /\ \E t \in 1..Len(tasks) : tasks[t].state = "cb" /\ tasks[t].cancel
    /\ GetStatistics.total_turns = 0

\* --------------------------------------------------------------------- C15
\* C15 (update_config): a call of update_config raises no error, leaves
\* every field it was not given and all detector state as they were, and
\* sets every field it was given to the given value, also when the same call
\* gives keywords that name no field.
C15_UpdateConfig ==
    [][\A kwargs \in Kwargs :
          UpdateConfig(kwargs) =>
              /\ ev'.out # "TypeError"
              /\ \A i \in DOMAIN kwargs :
                     kwargs[i][1] \in ConfigKeys =>
                         config'[kwargs[i][1]] = kwargs[i][2]
              /\ \A key \in ConfigKeys :
                     (\A i \in DOMAIN kwargs : kwargs[i][1] # key) =>
                         config'[key] = config[key]
              /\ UNCHANGED << speech_segments, last_speech_time,
                              turn_start_time, current_turn_text,
                              silence_timer_task, is_processing,
                              turn_complete_callback, callback_raises,
                              total_turns, total_speech_duration,
                              average_turn_length, now, tasks, force_pc,
                              delivered >>]_vars

\* --------------------------------------------------------------------- C20
\* C20 (reset after completion): right after a completion whose callback
\* returned normally, and right after a completion made with no callback
\* registered, speech_segments and current_turn_text are empty,
\* turn_start_time and last_speech_time are None and no silence timer is
\* pending.
C20_ResetAfterCompletion ==
    (ev.op = "cb_return" \/ ev.out \in {"sync_ok", "no_callback"}) =>
        (TurnStateIsReset /\ NoPendingTimer)

\* The callback awaited by force_complete_turn has returned before the
\* silence timer of the turn's segment could expire: the turn state is
\* cleared and that timer has ended.
C20_Witness ==
    /\ ev.op = "cb_return" /\ ev.by = 0
    /\ total_turns = 1
    /\ Len(tasks) = 1 /\ tasks[1].state = "done"
    /\ now < config.silence_timeout
    /\ TurnStateIsReset

\* ------------------------------------------------------------------ C16
\* sub occurs in s.
Occurs(sub, s) ==
    \E i \in 1..(Len(s) - Len(sub) + 1) : SubSeq(s, i, i + Len(sub) - 1) = sub

\* s has a substring of the form *...*.
HasMarker(s) == \E i, j \in 1..Len(s) : i < j /\ s[i] = "*" /\ s[j] = "*"

\* C16: whatever the text and the emotion, no output of _add_natural_pauses
\* has a substring of the form *...*; and the output for
\* "hello {marker} world", for each marker of the table and each emotion, has
\* no asterisk and no occurrence of the marker.
C16_MarkerElimination ==
    \A k \in 1..Len(markup.outs) :
        LET out == markup.outs[k] IN
        /\ ~HasMarker(out)
        /\ \A m \in Markers :
              markup.text = HelloWorld(m) /\ k = 1 =>
                  /\ \A i \in 1..Len(out) : out[i] # "*"
                  /\ ~Occurs(m, out)

\* "hello *soft sigh* world" with calm has become
\* 'hello <break time="500ms"/> world'.
C16_Witness ==
    /\ markup.text = HelloWorld(<<"*", "s", "o", "f", "t", " ", "s", "i", "g",
                                  "h", "*">>)
    /\ markup.emotion = "calm"
    /\ markup.outs =
         << <<"h", "e", "l", "l", "o", " ", "<break time=\"500ms\"/>", " ",
              "w", "o", "r", "l", "d">> >>

\* ------------------------------------------------------------------ C17
\* C17: a sigh, pause or breath marker of the table, in any letter case and
\* alone in the text, becomes exactly the one pause directive of its row.
C17_PauseTable ==
    \A k \in PauseRules :
        /\ markup.text \in CaseVariants(MarkerOf(emotion_patterns[k].pat))
        /\ markup.outs # <<>>
        => markup.outs[1] = emotion_patterns[k].rep

\* ------------------------------------------------------------------ C18
\* The number of positions of s that hold c.
Count(c, s) == Cardinality({ i \in 1..Len(s) : s[i] = c })

\* C18: the output for "Thank you... *soft sigh* ...I understand" with calm
\* has a pause directive for the ellipsis, exactly one directive of 500ms for
\* the sigh, no "*soft sigh*", and the words "Thank you" and "I understand".
C18_Scenario ==
    markup.text = Scenario /\ markup.emotion = "calm" /\ markup.outs # <<>> =>
        LET out == markup.outs[1] IN
        /\ Count("<break time=\"800ms\"/>", out) >= 1
        /\ Count("<break time=\"500ms\"/>", out) = 1
        /\ ~Occurs(<<"*", "s", "o", "f", "t", " ", "s", "i", "g", "h", "*">>,
                   out)
        /\ Occurs(<<"T", "h", "a", "n", "k", " ", "y", "o", "u">>, out)
        /\ Occurs(<<"I", " ", "u", "n", "d", "e", "r", "s", "t", "a", "n",
                    "d">>, out)

\* ------------------------------------------------------------------ C19
\* The text has no stage direction: no asterisk, parenthesis or angle
\* bracket, and no pause directive.
Plain(text) ==
    \A i \in 1..Len(text) :
        text[i] \notin {"*", "(", ")", "<", ">"} /\ ~IsBreak(text[i])

\* C19: for a text without stage directions, the second application of
\* _add_natural_pauses, to the output of the first and with the same emotion,
\* returns that output unchanged.
C19_Idempotent ==
    Plain(markup.text) /\ Len(markup.outs) >= 2 =>
        markup.outs[2] = markup.outs[1]

\* ------------------------------------------------------------------ C21
\* The step was a call of _complete_turn that passed the guard.
PassesGuard(e) ==
    e.op \in {"timer", "force"} /\ e.out \in InvokedOuts \cup {"no_callback"}

\* C21 (the count): with a callback registered, total_turns equals the
\* number of callback invocations since the last reset.
C21_TurnsAreInvocations ==
    turn_complete_callback # "None" => total_turns = invocations

\* C21 (the steps): a completion that passes the guard adds exactly 1 to
\* total_turns and, with a callback registered, invokes it exactly once; a
\* rejected turn and a guarded call change no statistic and invoke nothing.
C21_Step ==
    /\ PassesGuard(ev') =>
          /\ total_turns' = total_turns + 1
          /\ invocations' = invocations +
                 (IF turn_complete_callback # "None" THEN 1 ELSE 0)
    /\ ev'.out \in {"reject", "guarded"} =>
          UNCHANGED << total_turns, total_speech_duration,
                       average_turn_length, invocations >>

\* C21: statistics count turns one for one.
C21_StatisticsCountTurns == []C21_TurnsAreInvocations /\ [][C21_Step]_vars

\* Two turns were completed and passed to the callback, and a timer has just
\* rejected a turn below the minimum content.
C21_Witness ==
    /\ turn_complete_callback # "None"
    /\ total_turns = 2 /\ invocations = 2
    /\ ev.op = "timer" /\ ev.out = "reject"

\* ------------------------------------------------------------------ C22
\* The pause directives of s, in order.
Directives(s) == SelectSeq(s, IsBreak)

\* The last directive of the run of directives, separated only by
\* whitespace, that starts with the directive at position i of s.
RECURSIVE RunEnd(_, _)
RunEnd(s, i) ==
    LET after == { j \in (i + 1)..Len(s) : s[j] # " " }
        j == CHOOSE k \in after : \A l \in after : k <= l
    IN IF after # {} /\ IsBreak(s[j]) THEN RunEnd(s, j) ELSE i

\* The directives expected of s from position i on: one of 600ms for every
\* run of two or more, and a lone directive as it is.
RECURSIVE Collapsed(_, _)
Collapsed(s, i) ==
    IF i > Len(s) THEN <<>>
    ELSE IF IsBreak(s[i])
         THEN << IF RunEnd(s, i) > i THEN "<break time=\"600ms\"/>"
                 ELSE s[i] >> \o Collapsed(s, RunEnd(s, i) + 1)
         ELSE Collapsed(s, i + 1)

\* Two directives of s are adjacent or have only whitespace between them.
HasRun(s) == \E i \in 1..Len(s) : IsBreak(s[i]) /\ RunEnd(s, i) > i

\* C22: no output of _add_natural_pauses has two pause directives that are
\* adjacent or separated only by whitespace; and in a text made of
\* directives, letters and spaces every run of two or more directives has
\* become a single directive of 600ms.
C22_DirectiveCollapse ==
    /\ \A k \in 1..Len(markup.outs) : ~HasRun(markup.outs[k])
    /\ markup.text \in DirectiveTexts /\ markup.outs # <<>> =>
          Directives(markup.outs[1]) = Collapsed(markup.text, 1)

\* 'a<200ms> <200ms>a' has become 'a<600ms>a'.
C22_Witness ==
    /\ markup.text = <<"a", "<break time=\"200ms\"/>", " ",
                       "<break time=\"200ms\"/>">>
    /\ markup.outs # <<>>
    /\ markup.outs[1] = <<"a", "<break time=\"600ms\"/>">>

\* ------------------------------------------------------------------ C23
\* The pause directives of 150 to 300ms.
FillerPauses ==
    { "<break time=\"150ms\"/>", "<break time=\"200ms\"/>",
      "<break time=\"250ms\"/>", "<break time=\"300ms\"/>" }

\* The word f stands in s with a directive of 150 to 300ms right before or
\* right after it.
KeptWithPause(f, s) ==
    \E i \in 1..(Len(s) - Len(f) + 1) :
        /\ SubSeq(s, i, i + Len(f) - 1) = f
        /\ \/ i > 1 /\ s[i - 1] \in FillerPauses
           \/ i + Len(f) <= Len(s) /\ s[i + Len(f)] \in FillerPauses

\* C23: a hesitation word given alone or inside "I ... see" is in the output
\* unchanged, with a pause directive of 150 to 300ms next to it.
C23_FillersKept ==
    \A f \in Fillers :
        markup.text \in {f, ISee(f)} /\ markup.outs # <<>> =>
            KeptWithPause(f, markup.outs[1])

\* ------------------------------------------------------------------ C24
\* Every message of the memory old is in new at its place, unchanged but for
\* the content of a leading system message, which is the prompt of the
\* detected language.
MessagesKept(old, new) ==
    /\ Len(new) >= Len(old)
    /\ \A i \in 1..Len(old) :
          \/ new[i] = old[i]
          \/ /\ i = 1
             /\ old[1].role = "system"
             /\ new[1] = ConversationMessage("system",
                                             PromptFor(detected_language'))

\* C24: get_ai_response adds the user message before it calls the language
\* model, and an assistant message only when it has a response; no message
\* is removed or altered, but for the content of the leading system message;
\* reset_session leaves the system message alone in the memory.
C24_Step ==
    /\ ai_pc = "idle" /\ ai_pc' = "calling" =>
          /\ MessagesKept(session_memory, session_memory')
          /\ Len(session_memory') = Len(session_memory) + 1
          /\ session_memory'[Len(session_memory')].role = "user"
          /\ messages' # <<>>
          /\ messages'[Len(messages')] = session_memory'[Len(session_memory')]
    /\ ai_pc = "calling" /\ ai_pc' = "idle" =>
          session_memory' =
              IF Truthy(ai_response')
              THEN Append(session_memory,
                          ConversationMessage("assistant", ai_response'.text))
              ELSE session_memory
    /\ ai_pc = "idle" /\ ai_pc' = "idle" =>
          /\ Len(session_memory') = 1
          /\ session_memory'[1].role = "system"

C24_AppendOnly == [][C24_Step]_vars

\* After an answered exchange in Arabic the user spoke English and the
\* language model gave no answer: the memory holds the system message with
\* the English prompt, the first exchange and the second user message.
C24_Witness ==
    /\ ai_pc = "idle"
    /\ ~Truthy(ai_response)
    /\ Len(session_memory) = 4
    /\ session_memory[1] =
         ConversationMessage("system", "system_prompt_english")
    /\ session_memory[2].role = "user"
    /\ DetectLanguage(session_memory[2].content) = "ar"
    /\ session_memory[3].role = "assistant"
    /\ session_memory[4].role = "user"

\* ------------------------------------------------------------------ C30
\* s is the end of t.
IsSuffix(s, t) ==
    Len(s) <= Len(t) /\ SubSeq(t, Len(t) - Len(s) + 1, Len(t)) = s

\* C30: what get_ai_response gives the language model starts with the system
\* message holding the prompt of the detected language, goes on with the
\* most recent messages in order and ends with the current user message.
C30_SystemPromptFirst ==
    ai_pc = "calling" =>
        /\ messages # <<>>
        /\ messages[1] =
             ConversationMessage("system", PromptFor(detected_language))
        /\ IsSuffix(Tail(messages), Tail(session_memory))
        /\ messages[Len(messages)].role = "user"
        /\ messages[Len(messages)] = session_memory[Len(session_memory)]

\* ------------------------------------------------------------------ C25
\* C25: while a timer's completion is suspended in the awaited callback, a
\* call of add_speech_segment does not request the cancellation of that
\* task; and a timer that new speech has replaced leaves the callback only
\* by the callback's own end, the return being followed by the reset.
C25_Step ==
    \A t \in DOMAIN tasks :
        tasks[t].state = "cb" =>
            /\ (\E text \in Texts, is_final \in BOOLEAN :
                    AddSpeechSegment(text, is_final))
                   => tasks'[t].cancel = tasks[t].cancel
            /\ (silence_timer_task # t /\ tasks'[t].state # "cb") =>
                   /\ ev'.op \in {"cb_return", "cb_raise"}
                   /\ ev'.op = "cb_return" => current_turn_text' = <<>>

C25_CallbackNotInterrupted == [][C25_Step]_vars

\* ------------------------------------------------------------------ C26
\* C26: when an awaited callback returns, every segment accepted since the
\* callback was called is still in the turn with its text, and the pending
\* silence timer is left as it is.
C26_Step ==
    ev'.op = "cb_return" =>
        \A i \in 1..Len(speech_segments) :
            speech_segments[i].id \notin delivered =>
                /\ \E j \in 1..Len(speech_segments') :
                       speech_segments'[j] = speech_segments[i]
                /\ Occurs(Strip(speech_segments[i].text), current_turn_text')
                /\ tasks'[speech_segments[i].id] =
                       tasks[speech_segments[i].id]

C26_NoSpeechLost == [][C26_Step]_vars

\* ------------------------------------------------------------------ C27
\* A silence timer is pending: asleep or about to run, and not cancelled.
TimerPending ==
    \E t \in DOMAIN tasks :
        tasks[t].state \in {"sleep", "ready"} /\ ~tasks[t].cancel

\* C27: whenever text is accumulated and no completion is in progress, a
\* silence timer is pending.
C27_NoStrandedTurn ==
    current_turn_text # <<>> /\ ~is_processing => TimerPending

\* ------------------------------------------------------------------ C28
\* The callback was called in the step just taken, with segments that were
\* all accepted after the first n of the run, and with their text.
InvokedAfter(n) ==
    Invoked(ev) =>
        /\ \A i \in 1..Len(ev.args.segments) : ev.args.segments[i].id > n
        /\ ev.args.text = JoinStripped(ev.args.segments)

\* C28: once reset() has returned, no call of the callback is given a
\* segment, or the text of a segment, that was accepted before the reset.
C28_ResetIsBoundary ==
    \A n \in 0..(MaxSegs + 1) :
        [](ev.op = "reset" /\ Len(tasks) = n => []InvokedAfter(n))

\* The second segment has been passed alone to the callback by its own
\* timer, as the first turn counted; it was accepted before the timer of the
\* first segment could expire, so that reset() was called in between.
C28_Witness ==
    /\ ev.op = "timer" /\ ev.by = 2 /\ ev.out \in InvokedOuts
    /\ Len(ev.args.segments) = 1
    /\ ev.args.segments[1].id = 2
    /\ ev.args.segments[1].start_time < SilenceTimeout
    /\ tasks[1].state = "done"
    /\ total_turns = 1

\* ------------------------------------------------------------------ C29
\* C29: current_turn_text is always the stripped texts of speech_segments
\* joined by single spaces; it is empty exactly when speech_segments is
\* empty and exactly when last_speech_time is None; and it is never made of
\* whitespace only.
C29_AccumulatorConsistency ==
    /\ current_turn_text = JoinStripped(speech_segments)
    /\ current_turn_text = <<>> <=> speech_segments = <<>>
    /\ current_turn_text = <<>> <=> last_speech_time = None
    /\ current_turn_text # <<>> => Strip(current_turn_text) # <<>>

\* " ok" and then "oky" were accepted: the text is "ok oky".
C29_Witness ==
    /\ current_turn_text = <<"o", "k", " ", "o", "k", "y">>
    /\ Len(speech_segments) = 2
    /\ speech_segments[1].text = <<" ", "o", "k">>
    /\ last_speech_time = now
====
